---- MODULE Spec2Model ----
(***************************************************************************)
(* Lecture Analyzer: the Streamlit script src/main.py (session state,      *)
(* upload guard, process_audio, process_input, Clear Chat) and the stages  *)
(* of src/ai_logic.py (convert_to_wav, chunk_audio, transcribe_chunk,      *)
(* generate_summary, chat_with_context), with the temporary files they     *)
(* create and delete and the remote calls they issue.                      *)
(*                                                                         *)
(* Text is a sequence of characters; an optional value (Python None or a   *)
(* value) is a sequence of length 0 or 1.                                  *)
(***************************************************************************)
EXTENDS Integers, Sequences, FiniteSets, TLC

(* ------------------------------ bounds --------------------------------- *)
\* longest audio, in whole chunks
MaxChunks == 2
\* audio lengths are a multiple of CHUNK_DURATION, or Ragged ms off one
Ragged == 1
\* files the user uploads in a session
MaxUploads == 2
\* process_audio runs in a session
MaxRuns == 2
\* questions submitted in a session
MaxAsks == 2

(* --------------------------- program values ---------------------------- *)
\* AudioTranscriber.CHUNK_DURATION, milliseconds
CHUNK_DURATION == 10 * 60 * 1000

None == <<>>
Some(x) == <<x>>
Val(o) == o[1]

\* Python truthiness of an optional text: None and "" are falsy
Truthy(o) == o # None /\ Val(o) # <<>>

\* the three tabs of the results view
Tabs == {"Transcription", "Summary", "Chat"}

\* what the remote services may answer
TranscriptTexts == {<<"a">>, <<"b">>}
SummaryTexts == {<<"s">>}
ReplyTexts == {<<"r">>}
\* what the user may type in the question box
QuestionTexts == {<<>>, <<" ">>, <<"q">>}

\* lengths (ms) of the audio an uploaded file may decode to
AudioLengths ==
  { k * CHUNK_DURATION + off : k \in 0..MaxChunks, off \in {0 - Ragged, 0, Ragged} }
    \cap (0..(MaxChunks * CHUNK_DURATION))

\* the stages of a run and the error each raises
StageError(stage) == [stage |-> stage]

(* ------------------------------ helpers -------------------------------- *)
\* str.strip(): drop leading and trailing blanks
RECURSIVE LStrip(_)
LStrip(s) == IF s # <<>> /\ Head(s) = " " THEN LStrip(Tail(s)) ELSE s
RECURSIVE RStrip(_)
RStrip(s) ==
  IF s # <<>> /\ s[Len(s)] = " " THEN RStrip(SubSeq(s, 1, Len(s) - 1)) ELSE s
Strip(s) == RStrip(LStrip(s))

\* a join that drops the separator: what Join must differ from
RECURSIVE Join_NoSeparator(_)
Join_NoSeparator(parts) ==
  IF parts = <<>> THEN <<>> ELSE Head(parts) \o Join_NoSeparator(Tail(parts))

\* " ".join(parts)
RECURSIVE Join(_)
Join(parts) ==
  IF parts = <<>> THEN <<>>
  ELSE IF Len(parts) = 1 THEN Head(parts)
  ELSE Head(parts) \o <<" ">> \o Join(Tail(parts))

\* a slice whose end is not clamped: what Slice must differ from
Slice_NoClamp(len, i, j) == [start |-> i, len |-> j - i]

\* pydub audio[i:j] on an audio of len ms: the end is clamped to the audio
Slice(len, i, j) ==
  LET e == IF j > len THEN len ELSE j IN [start |-> i, len |-> e - i]

\* a temporary file: what made it, in which run, and the audio it holds
TempFile(kind, run, n, start, len) ==
  [kind |-> kind, run |-> run, n |-> n, start |-> start, len |-> len]


\* `raise` in a stage's except block: the error goes on unchanged
Reraise(e) == e

\* an except block that raises again: what ExceptHandler must differ from
ExceptHandler_Reraise(e) == [caught |-> Some(e), shown |-> TRUE, exc |-> Some(e)]

\* the except block of process_audio: log, st.error, and nothing is raised again
ExceptHandler(e) == [caught |-> Some(e), shown |-> TRUE, exc |-> None]

\* one entry of a conversation
Msg(role, content) == [role |-> role, content |-> content]

\* a chat that drops the question when the call fails: what ChatWithContext
\* must differ from
ChatWithContext_Rollback(hist, q, ok, reply) ==
  IF ok THEN Append(Append(hist, Msg("user", q)), Msg("assistant", reply)) ELSE hist

\* chat_with_context: the conversation history it leaves
ChatWithContext(hist, q, ok, reply) ==
  LET asked == Append(hist, Msg("user", q))
  IN  IF ok THEN Append(asked, Msg("assistant", reply)) ELSE asked

\* the message list chat_with_context sends: system context, then the history
ChatMessages(tr, hist, q) ==
  <<Msg("system", tr)>> \o Append(hist, Msg("user", q))

\* the finally block: `if exists: unlink` over the paths, in order
RECURSIVE UnlinkAll(_, _, _)
UnlinkAll(paths, disk, log) ==
  IF paths = <<>> THEN [fs |-> disk, log |-> log]
  ELSE IF Head(paths) \in disk
       THEN UnlinkAll(Tail(paths), disk \ {Head(paths)}, Append(log, Head(paths)))
       ELSE UnlinkAll(Tail(paths), disk, log)

(* ------------------------------- state --------------------------------- *)
VARIABLES
  \* st.session_state
  transcription, summary, chat_history, active_tab, user_input,
  \* st.session_state.analyzer.conversation_history
  conversation_history,
  \* the file_uploader widget
  uploaded_file,
  \* temporary files on disk
  fs,
  \* process_audio: position and locals
  pc, tmp_file_path, wav_path, chunks, transcriptions,
  \* chunk_audio: its local list
  ca_chunks,
  \* the exception in flight, what process_audio caught, showed and raised
  exc, caught, error_shown, propagated,
  \* the run's record: the stage failure, files created, os.unlink calls,
  \* transcribe_chunk calls, session state at entry
  stage_error, created, unlinked, calls, pre,
  \* the last message list sent to the chat model
  chat_request,
  \* the session's record: files uploaded, runs, runs per file, asks
  uploads, runs, runsOf, okAsks, failAsks

session == <<transcription, summary, chat_history, active_tab, user_input,
             conversation_history, chat_request, okAsks, failAsks>>
locals == <<tmp_file_path, wav_path, chunks, transcriptions, ca_chunks>>
errs == <<exc, caught, error_shown, propagated, stage_error>>
record == <<created, unlinked, calls, pre>>
counts == <<uploads, runs, runsOf>>
vars == <<session, uploaded_file, fs, pc, locals, errs, record, counts>>

SessionState == [transcription |-> transcription, summary |-> summary,
                 chat_history |-> chat_history]
EmptySession == [transcription |-> None, summary |-> None, chat_history |-> <<>>]

\* no process_audio frame: its locals and the run's record hold nothing
NoFrame ==
  /\ tmp_file_path' = None
  /\ wav_path' = None
  /\ chunks' = <<>>
  /\ transcriptions' = <<>>
  /\ ca_chunks' = <<>>
  /\ exc' = None
  /\ caught' = None
  /\ error_shown' = FALSE
  /\ propagated' = None
  /\ stage_error' = None
  /\ created' = {}
  /\ unlinked' = <<>>
  /\ calls' = <<>>

Init ==
  /\ transcription = None
  /\ summary = None
  /\ chat_history = <<>>
  /\ active_tab = "Transcription"
  /\ user_input = <<>>
  /\ conversation_history = <<>>
  /\ uploaded_file = None
  /\ fs = {}
  /\ pc = "idle"
  /\ tmp_file_path = None
  /\ wav_path = None
  /\ chunks = <<>>
  /\ transcriptions = <<>>
  /\ ca_chunks = <<>>
  /\ exc = None
  /\ caught = None
  /\ error_shown = FALSE
  /\ propagated = None
  /\ stage_error = None
  /\ created = {}
  /\ unlinked = <<>>
  /\ calls = <<>>
  /\ pre = EmptySession
  /\ chat_request = None
  /\ uploads = 0
  /\ runs = 0
  /\ runsOf = [f \in 1..MaxUploads |-> 0]
  /\ okAsks = 0
  /\ failAsks = 0

(* ------------------------- the script, top level ----------------------- *)
\* the upload guard: a file is there and no transcription has been stored
UploadGuard(file, tr) == file # None /\ tr = None

\* one run of the script past the upload guard, with the widget holding
\* `file`: process_audio is entered, or the run only renders
ScriptRun(file) ==
  IF UploadGuard(file, transcription)
  THEN /\ runs < MaxRuns
       /\ runs' = runs + 1
       /\ runsOf' = [runsOf EXCEPT ![Val(file).id] = @ + 1]
       /\ pc' = "save"
       /\ NoFrame
       /\ pre' = SessionState
  ELSE UNCHANGED <<pc, locals, errs, record, runs, runsOf>>

\* the user picks a file in the uploader
Upload ==
  /\ pc = "idle"
  /\ uploads < MaxUploads
  /\ uploaded_file' = Some([id |-> uploads + 1])
  /\ uploads' = uploads + 1
  /\ ScriptRun(uploaded_file')
  /\ UNCHANGED <<session, fs>>

\* the user removes the file from the uploader
RemoveFile ==
  /\ pc = "idle"
  /\ uploaded_file # None
  /\ uploaded_file' = None
  /\ ScriptRun(uploaded_file')
  /\ UNCHANGED <<session, fs, uploads>>

\* the script is run again with the widgets as they are
Rerun ==
  /\ pc = "idle"
  /\ ScriptRun(uploaded_file)
  /\ UNCHANGED <<session, uploaded_file, fs, uploads>>

\* the user picks a tab of the results view
SelectTab ==
  /\ pc = "idle"
  /\ Truthy(transcription)
  /\ \E t \in Tabs \ {active_tab} : active_tab' = t
  /\ ScriptRun(uploaded_file)
  /\ UNCHANGED <<transcription, summary, chat_history, user_input,
                 conversation_history, chat_request, okAsks, failAsks,
                 uploaded_file, fs, uploads>>

(* ----------------------------- process_audio --------------------------- *)
\* a stage fails: its error is raised to the except block of process_audio
Fail(stage) ==
  /\ stage_error' = Some(StageError(stage))
  /\ exc' = Some(Reraise(StageError(stage)))
  /\ pc' = "except"
  /\ UNCHANGED <<caught, error_shown, propagated>>

\* save the upload to a temporary file
SaveUpload ==
  /\ pc = "save"
  /\ LET f == TempFile("upload", runs, 0, 0, 0) IN
     /\ fs' = fs \cup {f}
     /\ created' = created \cup {f}
     /\ \/ /\ tmp_file_path' = Some(f)
           /\ pc' = "convert"
           /\ UNCHANGED errs
        \/ \* the write fails: the file exists, its path was never stored
           /\ Fail("save")
           /\ UNCHANGED tmp_file_path
  /\ UNCHANGED <<session, uploaded_file, wav_path, chunks, transcriptions,
                 ca_chunks, unlinked, calls, pre, counts>>

\* AudioTranscriber.convert_to_wav
ConvertToWav ==
  /\ pc = "convert"
  /\ \/ \E len \in AudioLengths :
          LET f == TempFile("wav", runs, 0, 0, len) IN
          /\ fs' = fs \cup {f}
          /\ created' = created \cup {f}
          /\ wav_path' = Some(f)
          /\ pc' = "chunk"
          /\ UNCHANGED errs
     \/ \* from_file or export fails after the temporary file was made
        LET f == TempFile("wav", runs, 0, 0, 0) IN
        /\ fs' = fs \cup {f}
        /\ created' = created \cup {f}
        /\ Fail("convert")
        /\ UNCHANGED wav_path
  /\ UNCHANGED <<session, uploaded_file, tmp_file_path, chunks, transcriptions,
                 ca_chunks, unlinked, calls, pre, counts>>

\* AudioTranscriber.chunk_audio: one pass of its loop, or its return
ChunkAudio ==
  /\ pc = "chunk"
  /\ LET len == Val(wav_path).len
         i == Len(ca_chunks) * CHUNK_DURATION
     IN
     IF i < len
     THEN LET c == Slice(len, i, i + CHUNK_DURATION)
              n == Len(ca_chunks) + 1
          IN
          /\ \/ LET f == TempFile("chunk", runs, n, c.start, c.len) IN
                /\ fs' = fs \cup {f}
                /\ created' = created \cup {f}
                /\ ca_chunks' = Append(ca_chunks, f)
                /\ UNCHANGED <<pc, errs>>
             \/ \* the export fails: the list never reaches process_audio
                LET f == TempFile("chunk", runs, n, c.start, 0) IN
                /\ fs' = fs \cup {f}
                /\ created' = created \cup {f}
                /\ Fail("chunk")
                /\ UNCHANGED ca_chunks
          /\ UNCHANGED chunks
     ELSE /\ chunks' = ca_chunks
          /\ pc' = "transcribe"
          /\ UNCHANGED <<fs, created, ca_chunks, errs>>
  /\ UNCHANGED <<session, uploaded_file, tmp_file_path, wav_path,
                 transcriptions, unlinked, calls, pre, counts>>

\* the transcription loop: one transcribe_chunk call, or the end of the loop
TranscribeChunk ==
  /\ pc = "transcribe"
  /\ LET i == Len(transcriptions) + 1 IN
     IF i <= Len(chunks)
     THEN \/ \E text \in TranscriptTexts :
               /\ calls' = Append(calls, [index |-> i, chunk |-> chunks[i],
                                          result |-> Some(text)])
               /\ transcriptions' = Append(transcriptions, text)
               /\ UNCHANGED <<pc, errs>>
          \/ /\ calls' = Append(calls, [index |-> i, chunk |-> chunks[i],
                                        result |-> None])
             /\ Fail("transcribe")
             /\ UNCHANGED transcriptions
     ELSE /\ pc' = "combine"
          /\ UNCHANGED <<calls, transcriptions, errs>>
  /\ UNCHANGED <<session, uploaded_file, fs, tmp_file_path, wav_path, chunks,
                 ca_chunks, created, unlinked, pre, counts>>

\* st.session_state.transcription = " ".join(transcriptions)
Combine ==
  /\ pc = "combine"
  /\ transcription' = Some(Join(transcriptions))
  /\ pc' = "summary"
  /\ UNCHANGED <<summary, chat_history, active_tab, user_input,
                 conversation_history, chat_request, okAsks, failAsks,
                 uploaded_file, fs, locals, errs, record, counts>>

\* st.session_state.summary = analyzer.generate_summary(transcription)
GenerateSummary ==
  /\ pc = "summary"
  /\ \/ /\ \E text \in SummaryTexts : summary' = Some(text)
        /\ pc' = "finally"
        /\ UNCHANGED errs
     \/ /\ Fail("summary")
        /\ UNCHANGED summary
  /\ UNCHANGED <<transcription, chat_history, active_tab, user_input,
                 conversation_history, chat_request, okAsks, failAsks,
                 uploaded_file, fs, locals, record, counts>>

\* except Exception as e
Except ==
  /\ pc = "except"
  /\ LET h == ExceptHandler(Val(exc)) IN
     /\ caught' = h.caught
     /\ error_shown' = h.shown
     /\ exc' = h.exc
  /\ pc' = "finally"
  /\ UNCHANGED <<session, uploaded_file, fs, locals, propagated, stage_error,
                 record, counts>>

\* finally: delete the temporary files process_audio knows, then leave
Finally ==
  /\ pc = "finally"
  /\ LET r == UnlinkAll(tmp_file_path \o wav_path \o chunks, fs, unlinked) IN
     /\ fs' = r.fs
     /\ unlinked' = r.log
  /\ propagated' = exc
  /\ exc' = None
  /\ pc' = "returned"
  /\ UNCHANGED <<session, uploaded_file, locals, caught, error_shown,
                 stage_error, created, calls, pre, counts>>

\* process_audio has returned: its frame is gone, the script renders the
\* results view and waits for the user
Render ==
  /\ pc = "returned"
  /\ pc' = "idle"
  /\ NoFrame
  /\ pre' = EmptySession
  /\ UNCHANGED <<session, uploaded_file, fs, counts>>

(* --------------------------------- chat -------------------------------- *)
\* the user submits the question box: process_input, then the script runs
Ask ==
  /\ pc = "idle"
  /\ Truthy(transcription)
  /\ active_tab = "Chat"
  /\ \E q \in QuestionTexts \ {user_input} :
       IF q # <<>> /\ Strip(q) # <<>>
       THEN /\ okAsks + failAsks < MaxAsks
            /\ chat_request' = Some(ChatMessages(Val(transcription),
                                                 conversation_history, q))
            /\ \/ \E reply \in ReplyTexts :
                    /\ conversation_history' =
                         ChatWithContext(conversation_history, q, TRUE, reply)
                    /\ chat_history' =
                         Append(Append(chat_history, Msg("user", q)),
                                Msg("assistant", reply))
                    /\ user_input' = <<>>
                    /\ okAsks' = okAsks + 1
                    /\ UNCHANGED failAsks
               \/ \* the call fails: process_input is left by the exception
                  /\ conversation_history' =
                       ChatWithContext(conversation_history, q, FALSE, <<>>)
                  /\ chat_history' = Append(chat_history, Msg("user", q))
                  /\ user_input' = q
                  /\ failAsks' = failAsks + 1
                  /\ UNCHANGED okAsks
            /\ UNCHANGED active_tab
       ELSE /\ user_input' = q
            /\ UNCHANGED <<chat_history, conversation_history, chat_request,
                           active_tab, okAsks, failAsks>>
  /\ ScriptRun(uploaded_file)
  /\ UNCHANGED <<transcription, summary, uploaded_file, fs, uploads>>

\* the Clear Chat button
ClearChat ==
  /\ pc = "idle"
  /\ Truthy(transcription)
  /\ active_tab = "Chat"
  /\ chat_history' = <<>>
  /\ ScriptRun(uploaded_file)
  /\ UNCHANGED <<transcription, summary, active_tab, user_input,
                 conversation_history, chat_request, okAsks, failAsks,
                 uploaded_file, fs, uploads>>

Next ==
  \/ Upload
  \/ RemoveFile
  \/ Rerun
  \/ SelectTab
  \/ SaveUpload
  \/ ConvertToWav
  \/ ChunkAudio
  \/ TranscribeChunk
  \/ Combine
  \/ GenerateSummary
  \/ Except
  \/ Finally
  \/ Render
  \/ Ask
  \/ ClearChat

Spec == Init /\ [][Next]_vars

(* ------------------------------ properties ----------------------------- *)
\* how often os.unlink was called on f in the run
UnlinkCount(f) == Cardinality({k \in 1..Len(unlinked) : unlinked[k] = f})

\* the run has left process_audio's finally block
Returned == pc = "returned"
RunFailed == stage_error # None

\* C1: when process_audio returns, whichever stage failed or none, every
\* temporary file the run created (upload copy, WAV, chunk files) has been
\* unlinked exactly once and is no longer on disk.
C1_AllTempFilesDeleted ==
  Returned => \A f \in created : f \notin fs /\ UnlinkCount(f) = 1

\* where part k of a space-joined text starts, less one
RECURSIVE PartOffset(_, _)
PartOffset(texts, k) ==
  IF k = 1 THEN 0 ELSE PartOffset(texts, k - 1) + Len(texts[k - 1]) + 1

\* s is the parts of texts in order, with exactly one blank between neighbours
IsSpaceJoined(s, texts) ==
  LET n == Len(texts) IN
  IF n = 0 THEN s = <<>>
  ELSE /\ Len(s) = PartOffset(texts, n) + Len(texts[n])
       /\ \A k \in 1..n :
            SubSeq(s, PartOffset(texts, k) + 1,
                      PartOffset(texts, k) + Len(texts[k])) = texts[k]
       /\ \A k \in 2..n : s[PartOffset(texts, k)] = " "

\* C2: transcription calls are issued one at a time in ascending chunk order
\* (call k is on chunk k and starts only after call k-1 has answered), and a
\* successful run over N chunks has issued exactly N calls and stored as the
\* transcription their N results joined by single blanks in that order.
C2_CallsInOrderAndJoined ==
  /\ \A k \in 1..Len(calls) :
       /\ calls[k].index = k
       /\ calls[k].chunk = chunks[k]
       /\ k < Len(calls) => calls[k].result = Some(transcriptions[k])
  /\ (Returned /\ ~RunFailed) =>
       /\ Len(calls) = Len(chunks)
       /\ \A k \in 1..Len(calls) : calls[k].result # None
       /\ transcription # None
       /\ IsSpaceJoined(Val(transcription),
                        [k \in 1..Len(calls) |-> Val(calls[k].result)])

C2_Witness ==
  /\ Returned /\ ~RunFailed
  /\ Len(chunks) = 2
  /\ Len(calls) = 2
  /\ transcription = Some(<<"a", " ", "b">>)

RECURSIVE SumLen(_)
SumLen(cs) == IF cs = <<>> THEN 0 ELSE Head(cs).len + SumLen(Tail(cs))

\* C3: for audio of length T > 0, chunk_audio returns ceil(T / CHUNK_DURATION)
\* chunks, numbered 1..count in list order, covering consecutive ranges from 0
\* to T with no gap or overlap, whose lengths sum to T, each but the last of
\* length exactly CHUNK_DURATION.
C3_ChunksPartitionAudio ==
  (pc = "transcribe" /\ Val(wav_path).len > 0) =>
    LET T == Val(wav_path).len
        n == Len(chunks)
    IN  /\ n * CHUNK_DURATION >= T
        /\ (n - 1) * CHUNK_DURATION < T
        /\ \A k \in 1..n :
             /\ chunks[k].kind = "chunk"
             /\ chunks[k].n = k
             /\ chunks[k].len > 0
             /\ chunks[k].len <= CHUNK_DURATION
             /\ chunks[k].start = IF k = 1 THEN 0
                                  ELSE chunks[k - 1].start + chunks[k - 1].len
             /\ k < n => chunks[k].len = CHUNK_DURATION
        /\ chunks[n].start + chunks[n].len = T
        /\ SumLen(chunks) = T

C3_Witness ==
  /\ pc = "transcribe"
  /\ Val(wav_path).len = CHUNK_DURATION + Ragged
  /\ Len(chunks) = 2
  /\ chunks[2].len = Ragged

Roles(hist) == [k \in 1..Len(hist) |-> hist[k].role]

\* C4: chat_with_context appends the question before the remote call (the
\* message list sent ends with it); a successful call appends exactly one
\* assistant entry after it and a failed call nothing.  So one successful ask
\* on a fresh session leaves [user, assistant], one failed ask leaves [user],
\* and after s successful and f failed asks the history has 2s + f entries.
C4_HistoryGrowth ==
  /\ Len(conversation_history) = 2 * okAsks + failAsks
  /\ (okAsks = 1 /\ failAsks = 0) =>
       Roles(conversation_history) = <<"user", "assistant">>
  /\ (okAsks = 0 /\ failAsks = 1) => Roles(conversation_history) = <<"user">>
  /\ chat_request # None =>
       LET sent == Tail(Val(chat_request))
           h == conversation_history
       IN  /\ sent # <<>>
           /\ sent[Len(sent)].role = "user"
           /\ \/ h = sent
              \/ /\ Len(h) = Len(sent) + 1
                 /\ SubSeq(h, 1, Len(sent)) = sent
                 /\ h[Len(h)].role = "assistant"

C4_Witness ==
  /\ okAsks = 1
  /\ failAsks = 1
  /\ Len(conversation_history) = 3

\* C5 (as claimed): when a stage of a run fails, process_audio ends by raising
\* that same error to its caller.
C5_ErrorRaisedToCaller ==
  (Returned /\ RunFailed) => propagated = stage_error

\* C5 (amended): a failing stage raises its error unchanged to process_audio,
\* whose except block catches it and reports it; process_audio then returns
\* normally and raises nothing to its caller.
C5_ErrorCaughtInProcessAudio ==
  /\ pc = "except" => (exc # None /\ exc = stage_error)
  /\ (Returned /\ RunFailed) =>
       /\ caught = stage_error
       /\ error_shown
       /\ propagated = None

C5_Witness ==
  /\ Returned
  /\ stage_error = Some(StageError("transcribe"))
  /\ Len(calls) = 2
  /\ caught = stage_error
  /\ propagated = None

\* C6: with normalized audio of length 0 chunking fails, so the run never
\* reaches the transcription loop, the assembly of a transcript or the summary.
C6_ZeroDurationFails ==
  (wav_path # None /\ Val(wav_path).len = 0) =>
    pc \notin {"transcribe", "combine", "summary"}

\* C7: the summary call starts only with every chunk transcribed and the
\* transcription stored, and whenever the conversation holds an exchange a
\* summary exists.
C7_StagesOrdered ==
  /\ pc = "summary" =>
       (transcription # None /\ Len(transcriptions) = Len(chunks))
  /\ conversation_history # <<>> => summary # None

\* C8: a failed run leaves transcription, summary and chat history as they
\* were when the run began.
C8_FailedRunLeavesSession ==
  (Returned /\ RunFailed) => SessionState = pre

\* C9: every uploaded file has triggered exactly one processing run.
C9_OneRunPerUpload ==
  \A f \in 1..uploads : runsOf[f] = 1

\* C10: the exchange log shown to the user equals the history the analyzer
\* holds and replays.
C10_ShownHistoryIsReplayed ==
  chat_history = conversation_history

====
